---- MODULE Spec2Model ----
(***************************************************************************)
(* Batch orchestration of wxhou/GlobalPic:                                 *)
(*   backend/app/services/batch_processor.py  (class BatchProcessor)       *)
(*                                                                         *)
(* The program runs on one asyncio event loop.  A coroutine is interrupted *)
(* only where an await really suspends.  In BatchProcessor no body of      *)
(* `async with self._task_lock` contains an await, so the lock is never    *)
(* held across a suspension and Lock.acquire() always takes its fast path  *)
(* (no yield); `await self._update_task(...)` runs a coroutine whose body  *)
(* is `pass` (no yield).  The suspension points of _process_task are       *)
(* therefore exactly: before its first step (asyncio.create_task only      *)
(* schedules it), the asyncio.gather of the service initialisers, and each *)
(* `await self._process_single_image(...)`.  One action of this module is  *)
(* the code that runs between two such points.                             *)
(*                                                                         *)
(* Further components, each with its own specification over the same       *)
(* variables (the components a specification does not run stay idle):      *)
(*   ApiSpec   the batch endpoints of api/v1/batch.py and the readers       *)
(*   ItemSpec  BatchProcessor._process_single_image, the operation chain   *)
(*   WaitSpec  ModelScopeClient._wait_for_result, the provider polling     *)
(*   JobSpec   the single-image job row of ImageService and its cancel     *)
(***************************************************************************)
EXTENDS Integers, Sequences, FiniteSets, TLC

(* ---------------- bounds of the model ---------------- *)
MaxImages == 2
MaxNow == 2
MaxOps == 2         \* operations requested for one image
MaxPollTime == 1    \* longest time one status request takes, in seconds

(* ---------------- values ---------------- *)
STATUS_PENDING == "pending"
STATUS_PROCESSING == "processing"
STATUS_COMPLETED == "completed"
STATUS_FAILED == "failed"
STATUS_CANCELLED == "cancelled"

\* Python None, per type of the field that holds it
NoTime == -1        \* completed_at = None
NoIndex == -1       \* an errors entry without an "index" key
NoOutput == <<>>    \* "output": None
NoError == "None"   \* "error": None

\* Task ids.  No step of the program reads or writes a task other than the one
\* whose id it was given, so one id that create_task can hand out is modelled,
\* and UnknownId is an id that is never in the table.
TaskIds == {1}
UnknownId == 0
CallIds == TaskIds \cup {UnknownId}
Users == {1, 2}

\* What the collaborators do with one submitted image:
\*   "ok"   _process_single_image returns success = True with outputs
\*   "fail" _process_single_image returns success = False
\*   "bad"  _decode_image raises (undecodable base64 / not an image)
ImageKinds == {"ok", "fail", "bad"}

RECURSIVE SeqsUpTo(_, _)
SeqsUpTo(S, n) ==
    IF n = 0 THEN {<<>>}
    ELSE LET shorter == SeqsUpTo(S, n - 1)
         IN shorter \cup {Append(s, x) : s \in {q \in shorter : Len(q) = n - 1}, x \in S}

\* image_data_list of an accepted request: at least one image
ImageLists == {s \in SeqsUpTo(ImageKinds, MaxImages) : Len(s) >= 1}

VARIABLES
    tasks,       \* self.tasks: the dict task_id -> task dict
    pc,          \* position of the _process_task coroutine of each task
    idx,         \* loop variable i of _process_task (0-based)
    now,         \* datetime.now()
    importable,  \* whether `from app.services.* import ...` succeeds in this process
    lastCall,    \* the last cancel_task call and what it returned
    cancel_pc,   \* where the loop was when cancel_task first returned True
    reply,       \* what the last endpoint or reader call returned, until the next step
    job,         \* the processing_jobs row of one single-image job
    jobReply,    \* the response of the last cancel_processing_job request
    wait,        \* one run of ModelScopeClient._wait_for_result
    item,        \* one run of _process_single_image
    lk,          \* self._task_lock and the coroutine that is running (LockSpec)
    held         \* the dict a caller got from get_task_results and still holds

\* the variables of the other components (single-image jobs, provider polling,
\* the per-image operation chain); the batch actions leave them alone
otherVars == <<job, jobReply, wait, item, lk, held>>

vars == <<tasks, pc, idx, now, importable, lastCall, cancel_pc, reply, otherVars>>

(* ---------------- create_task ---------------- *)
NewTask(user_id, image_data_list, ts) ==
    [ user_id          |-> user_id,
      status           |-> STATUS_PENDING,
      total_images     |-> Len(image_data_list),
      processed_images |-> 0,
      success_count    |-> 0,
      failed_count     |-> 0,
      image_data       |-> image_data_list,
      results          |-> <<>>,
      errors           |-> <<>>,
      created_at       |-> ts,
      completed_at     |-> NoTime,
      progress         |-> [num |-> 0, den |-> 1] ]

\* (processed_images / total_images) * 100, kept as an exact fraction
Progress(processed, total) == [num |-> processed * 100, den |-> total]

\* what _process_single_image returns for an image of the given kind
ProcessSingleImage(kind) ==
    IF kind = "ok"
    THEN [success |-> TRUE, output |-> <<"img">>, error |-> NoError]
    ELSE [success |-> FALSE, output |-> <<>>, error |-> NoError]

(* ---------------- _process_task: the locked per-item updates ---------------- *)
\* RecordResult with the position in results recorded instead of the loop variable i
RecordResult_PositionAsIndex(tk, i, result) ==
    [tk EXCEPT
        !.processed_images = @ + 1,
        !.success_count = @ + (IF result.success THEN 1 ELSE 0),
        !.failed_count = @ + (IF result.success THEN 0 ELSE 1),
        !.results = Append(@, [ index   |-> Len(tk.results),
                                success |-> result.success,
                                output  |-> IF result.success THEN result.output ELSE NoOutput,
                                error   |-> IF ~result.success THEN result.error ELSE NoError ]),
        !.progress = Progress(tk.processed_images + 1, tk.total_images)]

\* lines 124-139: the normal per-item update
RecordResult(tk, i, result) ==
    [tk EXCEPT
        !.processed_images = @ + 1,
        !.success_count = @ + (IF result.success THEN 1 ELSE 0),
        !.failed_count = @ + (IF result.success THEN 0 ELSE 1),
        !.results = Append(@, [ index   |-> i,
                                success |-> result.success,
                                output  |-> IF result.success THEN result.output ELSE NoOutput,
                                error   |-> IF ~result.success THEN result.error ELSE NoError ]),
        !.progress = Progress(tk.processed_images + 1, tk.total_images)]

\* RecordException without the failed_count increment
RecordException_NoFailedCount(tk, i) ==
    [tk EXCEPT
        !.processed_images = @ + 1,
        !.errors = Append(@, [index |-> i, error |-> "exception"]),
        !.progress = Progress(tk.processed_images + 1, tk.total_images)]

\* lines 143-151: the per-item exception path
RecordException(tk, i) ==
    [tk EXCEPT
        !.processed_images = @ + 1,
        !.failed_count = @ + 1,
        !.errors = Append(@, [index |-> i, error |-> "exception"]),
        !.progress = Progress(tk.processed_images + 1, tk.total_images)]

\* FinishTask that reports completed only when no item failed
FinishTask_AllOrNothing(tk, ts) ==
    [tk EXCEPT
        !.status = IF tk.failed_count = 0 THEN STATUS_COMPLETED ELSE STATUS_FAILED,
        !.completed_at = ts]

\* lines 153-160: the loop is exhausted
FinishTask(tk, ts) ==
    [tk EXCEPT
        !.status = IF tk.success_count > 0 THEN STATUS_COMPLETED ELSE STATUS_FAILED,
        !.completed_at = ts]

\* OuterFail that records the error but leaves the status as it was
OuterFail_KeepsStatus(tk, ts) ==
    [tk EXCEPT
        !.errors = Append(@, [index |-> NoIndex, error |-> "exception"]),
        !.completed_at = ts]

\* lines 165-170: the outer exception handler
OuterFail(tk, ts) ==
    [tk EXCEPT
        !.status = STATUS_FAILED,
        !.errors = Append(@, [index |-> NoIndex, error |-> "exception"]),
        !.completed_at = ts]

\* RunLoop without the per-item try/except: a decoding error ends the loop
\* in the outer exception handler
RECURSIVE RunLoop_NoItemHandler(_, _, _)
RunLoop_NoItemHandler(tk, i, ts) ==
    IF i >= Len(tk.image_data)
    THEN [task |-> FinishTask(tk, ts), pc |-> "done", idx |-> i]
    ELSE IF tk.status = STATUS_CANCELLED
    THEN [task |-> tk, pc |-> "done", idx |-> i]
    ELSE IF tk.image_data[i + 1] = "bad"
    THEN [task |-> OuterFail(tk, ts), pc |-> "done", idx |-> i]
    ELSE [task |-> tk, pc |-> "work", idx |-> i]

\* lines 109-122 and 143-163: the for loop from image i up to its next
\* suspension (the await of _process_single_image) or its end.
RECURSIVE RunLoop(_, _, _)
RunLoop(tk, i, ts) ==
    IF i >= Len(tk.image_data)
    THEN [task |-> FinishTask(tk, ts), pc |-> "done", idx |-> i]
    ELSE IF tk.status = STATUS_CANCELLED
    THEN [task |-> tk, pc |-> "done", idx |-> i]
    ELSE IF tk.image_data[i + 1] = "bad"
    THEN RunLoop(RecordException(tk, i), i + 1, ts)
    ELSE [task |-> tk, pc |-> "work", idx |-> i]

(* ---------------- state ---------------- *)
\* no endpoint or reader call has returned since the last step of the program
NoReply == [op |-> "none", task_id |-> 0, ok |-> FALSE, data |-> <<>>]

\* the components that a specification does not run stay in these states
IdleJob == [status |-> "none"]
NoJobReply == [op |-> "none"]
IdleWait == [pc |-> "none"]
IdleItem == [pc |-> "none"]
IdleLock == [holder |-> "none", running |-> "none", caller |-> "idle", op |-> "none",
             task_id |-> 0, user_id |-> 0, images |-> <<>>, blocked |-> FALSE]
NoHeld == [op |-> "none"]

OthersIdle ==
    /\ job = IdleJob
    /\ jobReply = NoJobReply
    /\ wait = IdleWait
    /\ item = IdleItem
    /\ lk = IdleLock
    /\ held = NoHeld

\* BatchProcessor has no task and no request has been made
BatchIdle ==
    /\ tasks = <<>>
    /\ pc = [t \in TaskIds |-> "none"]
    /\ idx = [t \in TaskIds |-> 0]
    /\ now = 0
    /\ importable = TRUE
    /\ lastCall = [op |-> "none", task_id |-> 0, user_id |-> 0, ret |-> FALSE, seq |-> 0]
    /\ cancel_pc = [t \in TaskIds |-> "never"]
    /\ reply = NoReply
    /\ lk = IdleLock
    /\ held = NoHeld

NoCall == [op |-> "none", task_id |-> 0, user_id |-> 0, ret |-> FALSE, seq |-> 0]

Init ==
    /\ tasks = <<>>
    /\ pc = [t \in TaskIds |-> "none"]
    /\ idx = [t \in TaskIds |-> 0]
    /\ now = 0
    /\ importable \in BOOLEAN
    /\ lastCall = NoCall
    /\ cancel_pc = [t \in TaskIds |-> "never"]
    /\ reply = NoReply
    /\ OthersIdle

(* ---------------- actions ---------------- *)
\* create_task (lines 53-75) for a request the endpoint accepted; uuid4 gives an unused id
create_task(task_id, user_id, image_data_list) ==
    /\ task_id \notin DOMAIN tasks
    /\ tasks' = [t \in DOMAIN tasks \cup {task_id} |->
                    IF t = task_id THEN NewTask(user_id, image_data_list, now) ELSE tasks[t]]
    /\ pc' = [pc EXCEPT ![task_id] = "start"]
    /\ UNCHANGED <<idx, now, importable, lastCall, cancel_pc>>
    /\ reply' = NoReply
    /\ UNCHANGED otherVars

\* _process_task, lines 86-102: first step, up to the await of asyncio.gather
process_task_start(task_id) ==
    /\ pc[task_id] = "start"
    /\ importable
    /\ tasks' = [tasks EXCEPT ![task_id].status = STATUS_PROCESSING]
    /\ pc' = [pc EXCEPT ![task_id] = "init"]
    /\ UNCHANGED <<idx, now, importable, lastCall, cancel_pc>>
    /\ reply' = NoReply
    /\ UNCHANGED otherVars

\* process_task_import_error without the outer handler: the coroutine dies
process_task_import_error_NoHandler(task_id) ==
    /\ pc[task_id] = "start"
    /\ ~importable
    /\ tasks' = [tasks EXCEPT ![task_id].status = STATUS_PROCESSING]
    /\ pc' = [pc EXCEPT ![task_id] = "done"]
    /\ UNCHANGED <<idx, now, importable, lastCall, cancel_pc>>
    /\ reply' = NoReply
    /\ UNCHANGED otherVars

\* _process_task, lines 86-99 and 165-171: an import of a service module raises
process_task_import_error(task_id) ==
    /\ pc[task_id] = "start"
    /\ ~importable
    /\ tasks' = [tasks EXCEPT ![task_id] =
                    OuterFail([tasks[task_id] EXCEPT !.status = STATUS_PROCESSING], now)]
    /\ pc' = [pc EXCEPT ![task_id] = "done"]
    /\ UNCHANGED <<idx, now, importable, lastCall, cancel_pc>>
    /\ reply' = NoReply
    /\ UNCHANGED otherVars

\* _process_task, lines 102-122: gather has returned, the loop starts at image 0
process_task_loop(task_id) ==
    /\ pc[task_id] = "init"
    /\ LET r == RunLoop(tasks[task_id], 0, now)
       IN /\ tasks' = [tasks EXCEPT ![task_id] = r.task]
          /\ pc' = [pc EXCEPT ![task_id] = r.pc]
          /\ idx' = [idx EXCEPT ![task_id] = r.idx]
    /\ UNCHANGED <<now, importable, lastCall, cancel_pc>>
    /\ reply' = NoReply
    /\ UNCHANGED otherVars

\* _process_task, lines 120-141 then the loop again: _process_single_image has returned
process_task_item(task_id) ==
    /\ pc[task_id] = "work"
    /\ LET tk == tasks[task_id]
           i == idx[task_id]
           result == ProcessSingleImage(tk.image_data[i + 1])
           r == RunLoop(RecordResult(tk, i, result), i + 1, now)
       IN /\ tasks' = [tasks EXCEPT ![task_id] = r.task]
          /\ pc' = [pc EXCEPT ![task_id] = r.pc]
          /\ idx' = [idx EXCEPT ![task_id] = r.idx]
    /\ UNCHANGED <<now, importable, lastCall, cancel_pc>>
    /\ reply' = NoReply
    /\ UNCHANGED otherVars

\* CancelRejected without the owner comparison
CancelRejected_NoOwnerCheck(task_id, user_id) ==
    \/ task_id \notin DOMAIN tasks
    \/ tasks[task_id].status \in {STATUS_COMPLETED, STATUS_FAILED}

\* cancel_task, lines 270-282
CancelRejected(task_id, user_id) ==
    \/ task_id \notin DOMAIN tasks
    \/ tasks[task_id].user_id # user_id
    \/ tasks[task_id].status \in {STATUS_COMPLETED, STATUS_FAILED}

cancel_task(task_id, user_id) ==
    /\ IF CancelRejected(task_id, user_id)
       THEN /\ lastCall' = [op |-> "cancel_task", task_id |-> task_id, user_id |-> user_id,
                            ret |-> FALSE, seq |-> 1 - lastCall.seq]
            /\ UNCHANGED <<tasks, cancel_pc>>
       ELSE /\ tasks' = [tasks EXCEPT ![task_id].status = STATUS_CANCELLED,
                                      ![task_id].completed_at = now]
            /\ lastCall' = [op |-> "cancel_task", task_id |-> task_id, user_id |-> user_id,
                            ret |-> TRUE, seq |-> 1 - lastCall.seq]
            /\ cancel_pc' = [cancel_pc EXCEPT ![task_id] =
                                IF @ = "never" THEN pc[task_id] ELSE @]
    /\ UNCHANGED <<pc, idx, now, importable>>
    /\ reply' = NoReply
    /\ UNCHANGED otherVars

\* the wall clock advances
Tick ==
    /\ now < MaxNow
    /\ now' = now + 1
    /\ UNCHANGED <<tasks, pc, idx, importable, lastCall, cancel_pc, reply>>
    /\ UNCHANGED otherVars

LoopStep(t) ==
    \/ process_task_start(t)
    \/ process_task_import_error(t)
    \/ process_task_loop(t)
    \/ process_task_item(t)

Next ==
    \/ \E t \in TaskIds, u \in Users, imgs \in ImageLists : create_task(t, u, imgs)
    \/ \E t \in TaskIds : process_task_start(t)
    \/ \E t \in TaskIds : process_task_import_error(t)
    \/ \E t \in TaskIds : process_task_loop(t)
    \/ \E t \in TaskIds : process_task_item(t)
    \/ \E t \in CallIds, u \in Users : cancel_task(t, u)
    \/ Tick

Spec == Init /\ [][Next]_vars

\* the event loop runs every scheduled coroutine step; collaborator calls return
FairSpec == Spec /\ \A t \in TaskIds : WF_vars(LoopStep(t))

(* ---------------- readers ---------------- *)
\* get_task_status, lines 237-252, for a task id that is in the table
get_task_status(task_id) ==
    LET task == tasks[task_id]
    IN [ task_id          |-> task_id,
         status           |-> task.status,
         total_images     |-> task.total_images,
         processed_images |-> task.processed_images,
         success_count    |-> task.success_count,
         failed_count     |-> task.failed_count,
         progress         |-> task.progress,
         created_at       |-> task.created_at,
         completed_at     |-> task.completed_at ]

\* get_task_results, lines 256-268, for a task id that is in the table
get_task_results(task_id) ==
    LET task == tasks[task_id]
    IN [ task_id       |-> task_id,
         status        |-> task.status,
         results       |-> task.results,
         errors        |-> task.errors,
         success_count |-> task.success_count,
         failed_count  |-> task.failed_count ]

(* ---------------- vocabulary of the properties ---------------- *)
Terminal(status) == status \in {STATUS_COMPLETED, STATUS_FAILED, STATUS_CANCELLED}

\* cancel_task has never returned True for the task
NeverCancelled(t) == cancel_pc[t] = "never"

\* the outer exception handler of _process_task has run for the task
OuterHandlerRan(t) == \E k \in DOMAIN tasks[t].errors : tasks[t].errors[k].index = NoIndex

\* the entries of errors written by the per-item exception path
ItemErrors(t) == {k \in DOMAIN tasks[t].errors : tasks[t].errors[k].index # NoIndex}

\* how many outcomes are recorded for image i of the task, in results or in errors
Recorded(t, i) ==
    Cardinality({k \in DOMAIN tasks[t].results : tasks[t].results[k].index = i})
    + Cardinality({k \in ItemErrors(t) : tasks[t].errors[k].index = i})

\* how many images of the task are of the given kinds
KindCount(t, kinds) ==
    Cardinality({k \in DOMAIN tasks[t].image_data : tasks[t].image_data[k] \in kinds})

\* the step is a call of cancel_task
CancelCalled == lastCall'.seq # lastCall.seq /\ lastCall'.op = "cancel_task"

(* ---------------- C1 ---------------- *)
\* C1: in every state a caller can observe through get_task_status and
\* get_task_results, processed_images = success_count + failed_count and
\* processed_images <= total_images.
C1_CountersConsistent ==
    \A t \in DOMAIN tasks :
        LET s == get_task_status(t)
            r == get_task_results(t)
        IN /\ s.processed_images = s.success_count + s.failed_count
           /\ s.processed_images = r.success_count + r.failed_count
           /\ s.processed_images <= s.total_images

\* both per-item paths have written and a cancel_task has succeeded in between
C1_Witness ==
    \E t \in DOMAIN tasks :
        /\ tasks[t].results # <<>>
        /\ ItemErrors(t) # {}
        /\ ~NeverCancelled(t)
        /\ tasks[t].processed_images = tasks[t].total_images

(* ---------------- C2 ---------------- *)
\* C2: for a task on which cancel_task never returned True, at every observed
\* instant status = completed exactly when processed_images = total_images and
\* success_count > 0.
C2_CompletedIff ==
    \A t \in DOMAIN tasks :
        NeverCancelled(t) =>
            LET s == get_task_status(t)
            IN (s.status = STATUS_COMPLETED)
                   <=> (s.processed_images = s.total_images /\ s.success_count > 0)

\* a never-cancelled batch completed although one of its items failed
C2_Witness ==
    \E t \in DOMAIN tasks :
        /\ NeverCancelled(t)
        /\ tasks[t].status = STATUS_COMPLETED
        /\ tasks[t].failed_count > 0
        /\ tasks[t].success_count > 0

(* ---------------- C3 ---------------- *)
\* C3 as stated: for a task on which cancel_task never returned True, status =
\* failed exactly when processed_images = total_images and success_count = 0,
\* also when the loop ends through its outer exception handler.
C3_FailedIffAllProcessed ==
    \A t \in DOMAIN tasks :
        NeverCancelled(t) =>
            LET s == get_task_status(t)
            IN (s.status = STATUS_FAILED)
                   <=> (s.processed_images = s.total_images /\ s.success_count = 0)

\* C3 as amended: for a task on which cancel_task never returned True, status =
\* failed exactly when either processed_images = total_images and success_count
\* = 0, or the loop ended through its outer exception handler; only in the
\* latter case is the task failed while processed_images < total_images.
C3_FailedIff ==
    \A t \in DOMAIN tasks :
        NeverCancelled(t) =>
            LET s == get_task_status(t)
            IN /\ (s.status = STATUS_FAILED)
                      <=> \/ (s.processed_images = s.total_images /\ s.success_count = 0)
                          \/ OuterHandlerRan(t)
               /\ (s.status = STATUS_FAILED /\ s.processed_images < s.total_images)
                      => OuterHandlerRan(t)

\* a never-cancelled task that the outer handler failed before its first image
C3_Witness ==
    \E t \in DOMAIN tasks :
        /\ NeverCancelled(t)
        /\ OuterHandlerRan(t)
        /\ tasks[t].status = STATUS_FAILED
        /\ tasks[t].processed_images < tasks[t].total_images

(* ---------------- C4 ---------------- *)
\* C4 as stated: for every position i of results, results[i] is the outcome of
\* the i-th submitted image (results[i].index = i), whatever the outcomes were.
C4_ResultsIndexedBySubmission ==
    \A t \in DOMAIN tasks :
        \A k \in DOMAIN tasks[t].results : tasks[t].results[k].index = k - 1

\* C4 as amended: results holds, in submission order, the outcome of every
\* processed image whose decoding and processing raised no exception; an image
\* that raised is recorded in errors instead, so results[i].index = i + the
\* number of earlier images recorded in errors.
C4_ResultsInSubmissionOrder ==
    \A t \in DOMAIN tasks :
        LET res == tasks[t].results
        IN \A k \in DOMAIN res :
            /\ res[k].index = (k - 1)
                 + Cardinality({e \in ItemErrors(t) : tasks[t].errors[e].index < res[k].index})
            /\ k > 1 => res[k - 1].index < res[k].index
            /\ Recorded(t, res[k].index) = 1

\* an image was recorded in results after an earlier one had raised
C4_Witness ==
    \E t \in DOMAIN tasks :
        \E k \in DOMAIN tasks[t].results :
            /\ tasks[t].results[k].index > k - 1
            /\ ItemErrors(t) # {}

(* ---------------- C5 ---------------- *)
\* C5: once cancel_task has returned True, the loop terminates with status =
\* cancelled, wherever the loop was when the cancel arrived: whenever the loop
\* of a cancelled task has terminated, the status is cancelled.
C5_CancelledWhenLoopEnds ==
    \A t \in DOMAIN tasks :
        (~NeverCancelled(t) /\ pc[t] = "done") => tasks[t].status = STATUS_CANCELLED

(* ---------------- C6 ---------------- *)
\* C6: after a cancel_task that returned True before the loop reached image 0
\* (also before the first step of _process_task), no image of the task is ever
\* processed, and the loop ends with status = cancelled and processed_images = 0.
C6_EarlyCancelProcessesNothing ==
    \A t \in DOMAIN tasks :
        cancel_pc[t] \in {"start", "init"} =>
            /\ tasks[t].processed_images = 0
            /\ \A i \in 0..(tasks[t].total_images - 1) : Recorded(t, i) = 0
            /\ pc[t] # "work"
            /\ pc[t] = "done" => tasks[t].status = STATUS_CANCELLED

(* ---------------- C7 ---------------- *)
\* C7: cancel_task called by the owner on a task whose status is completed,
\* failed or cancelled returns False and leaves every field of the task
\* unchanged, completed_at included.
C7_CancelOfTerminalRejected ==
    [][ \A t \in DOMAIN tasks :
          ( /\ CancelCalled
            /\ lastCall'.task_id = t
            /\ lastCall'.user_id = tasks[t].user_id
            /\ Terminal(tasks[t].status) )
          => (lastCall'.ret = FALSE /\ tasks' = tasks) ]_vars

(* ---------------- C8 ---------------- *)
\* C8: cancel_task returns False and changes no field of any task when the id
\* is not in the table or the caller is not the owner; only a call by the
\* owner ever makes a status become cancelled.
C8_ForeignCancelRejected ==
    [][ /\ ( /\ CancelCalled
             /\ \/ lastCall'.task_id \notin DOMAIN tasks
                \/ tasks[lastCall'.task_id].user_id # lastCall'.user_id )
           => (lastCall'.ret = FALSE /\ tasks' = tasks)
        /\ \A t \in DOMAIN tasks :
             ( /\ tasks[t].status # STATUS_CANCELLED
               /\ tasks'[t].status = STATUS_CANCELLED )
             => ( /\ CancelCalled
                  /\ lastCall'.task_id = t
                  /\ lastCall'.user_id = tasks[t].user_id
                  /\ lastCall'.ret = TRUE ) ]_vars

\* a user who is not the owner has just called cancel_task on a task that is
\* in the table and still running, and was refused
C8_Witness ==
    /\ lastCall.op = "cancel_task"
    /\ lastCall.ret = FALSE
    /\ lastCall.task_id \in DOMAIN tasks
    /\ tasks[lastCall.task_id].user_id # lastCall.user_id
    /\ tasks[lastCall.task_id].status = STATUS_PROCESSING

(* ---------------- C9 ---------------- *)
\* C9: the status only moves forward along pending -> processing ->
\* {completed, failed, cancelled}, and once it is completed, failed or
\* cancelled no step changes it.
StatusRank(status) ==
    IF status = STATUS_PENDING THEN 0 ELSE IF status = STATUS_PROCESSING THEN 1 ELSE 2

C9_TerminalStatusStable ==
    [][ \A t \in DOMAIN tasks :
          /\ StatusRank(tasks[t].status) <= StatusRank(tasks'[t].status)
          /\ Terminal(tasks[t].status) => tasks'[t].status = tasks[t].status ]_vars

(* ---------------- C10 ---------------- *)
\* C10: in a batch that is never cancelled and whose loop reaches its images
\* (the service modules import),
\* a failing image (failed processing or undecodable) never stops the loop:
\* no image is processed twice, the loop ends with every image processed
\* exactly once and processed_images = total_images, the counts equal the
\* numbers of successes and failures, a batch with a success and a failure
\* ends completed, and under fair scheduling that end is reached.
C10_Safety ==
    \A t \in DOMAIN tasks :
        (NeverCancelled(t) /\ importable) =>
            /\ \A i \in 0..(tasks[t].total_images - 1) : Recorded(t, i) <= 1
            /\ pc[t] = "done" =>
                 /\ \A i \in 0..(tasks[t].total_images - 1) : Recorded(t, i) = 1
                 /\ tasks[t].processed_images = tasks[t].total_images
                 /\ tasks[t].success_count = KindCount(t, {"ok"})
                 /\ tasks[t].failed_count = KindCount(t, {"fail", "bad"})
                 /\ (tasks[t].success_count > 0 /\ tasks[t].failed_count > 0)
                        => tasks[t].status = STATUS_COMPLETED

C10_Live ==
    \A t \in TaskIds :
        (pc[t] = "init")
            ~> \/ ~NeverCancelled(t)
               \/ (pc[t] = "done" /\ tasks[t].processed_images = tasks[t].total_images)

\* C10: item failures never stop the loop of a never-cancelled batch: the
\* safety part in every state, and the loop's end under fair scheduling.
C10_ItemFailureIsolated == []C10_Safety /\ C10_Live

\* a never-cancelled batch ended completed with an undecodable image recorded
\* in errors and another image recorded as a success
C10_Witness ==
    \E t \in DOMAIN tasks :
        /\ NeverCancelled(t)
        /\ pc[t] = "done"
        /\ ItemErrors(t) # {}
        /\ tasks[t].success_count > 0
        /\ tasks[t].status = STATUS_COMPLETED

(***************************************************************************)
(* The batch endpoints of backend/app/api/v1/batch.py and the readers of   *)
(* BatchProcessor.  Every one of them runs to its return without a         *)
(* suspension that lets another coroutine change self.tasks, so each call  *)
(* is one action; what it returned is kept in `reply` until the next step  *)
(* of the program.                                                         *)
(***************************************************************************)
MaxBatchImages == 50
ValidOperations == {"text_removal", "background_replacement"}

\* a request with one image more than the endpoint allows
OversizeImages == [i \in 1..(MaxBatchImages + 1) |-> "ok"]

\* request.images of the requests that break a rule: no image, one image,
\* one image too many
RequestImageLists == {<<>>, <<"ok">>, OversizeImages}

\* request.operations
OperationLists ==
    { <<"background_replacement">>,
      <<"text_removal", "background_replacement">>,
      <<"text_removal", "sharpen">> }

\* the requests made: every image list of the model with known operations,
\* and the rule-breaking lists with every operation list
CreateRequests ==
    { <<imgs, ops>> : imgs \in ImageLists,
                      ops \in {o \in OperationLists :
                                 \A k \in 1..Len(o) : o[k] \in ValidOperations} }
    \cup (RequestImageLists \X OperationLists)

\* RequestRejected without the upper limit on the number of images
RequestRejected_NoUpperLimit(images, operations) ==
    \/ Len(images) < 1
    \/ \E k \in 1..Len(operations) : operations[k] \notin ValidOperations

\* create_batch_task, batch.py lines 71-91: the three HTTP 400 exits
RequestRejected(images, operations) ==
    \/ Len(images) > MaxBatchImages
    \/ Len(images) < 1
    \/ \E k \in 1..Len(operations) : operations[k] \notin ValidOperations

Request(images, operations) == [n_images |-> Len(images), operations |-> operations]

\* create_batch_task, batch.py lines 64-119
create_batch_task(task_id, user_id, images, operations) ==
    IF RequestRejected(images, operations)
    THEN /\ reply' = [op |-> "create_batch_task", task_id |-> UnknownId, ok |-> FALSE,
                      data |-> <<Request(images, operations)>>]
         /\ UNCHANGED <<tasks, pc, idx, now, importable, lastCall, cancel_pc>>
         /\ UNCHANGED otherVars
    ELSE /\ task_id \notin DOMAIN tasks
         /\ tasks' = [t \in DOMAIN tasks \cup {task_id} |->
                         IF t = task_id THEN NewTask(user_id, images, now) ELSE tasks[t]]
         /\ pc' = [pc EXCEPT ![task_id] = "start"]
         /\ reply' = [op |-> "create_batch_task", task_id |-> task_id, ok |-> TRUE,
                      data |-> <<Request(images, operations)>>]
         /\ UNCHANGED <<idx, now, importable, lastCall, cancel_pc>>
         /\ UNCHANGED otherVars

\* a call of get_task_status (lines 235-252); None is ok = FALSE with no data
call_get_task_status(task_id) ==
    /\ reply' = IF task_id \in DOMAIN tasks
                THEN [op |-> "get_task_status", task_id |-> task_id, ok |-> TRUE,
                      data |-> <<get_task_status(task_id)>>]
                ELSE [op |-> "get_task_status", task_id |-> task_id, ok |-> FALSE,
                      data |-> <<>>]
    /\ UNCHANGED <<tasks, pc, idx, now, importable, lastCall, cancel_pc>>
    /\ UNCHANGED otherVars

\* call_get_task_results as a read that empties the errors list it returned
call_get_task_results_Draining(task_id) ==
    /\ reply' = IF task_id \in DOMAIN tasks
                THEN [op |-> "get_task_results", task_id |-> task_id, ok |-> TRUE,
                      data |-> <<get_task_results(task_id)>>]
                ELSE [op |-> "get_task_results", task_id |-> task_id, ok |-> FALSE,
                      data |-> <<>>]
    /\ tasks' = IF task_id \in DOMAIN tasks
                THEN [tasks EXCEPT ![task_id].errors = <<>>]
                ELSE tasks
    /\ UNCHANGED <<pc, idx, now, importable, lastCall, cancel_pc>>
    /\ UNCHANGED otherVars

\* a call of get_task_results (lines 254-268)
call_get_task_results(task_id) ==
    /\ reply' = IF task_id \in DOMAIN tasks
                THEN [op |-> "get_task_results", task_id |-> task_id, ok |-> TRUE,
                      data |-> <<get_task_results(task_id)>>]
                ELSE [op |-> "get_task_results", task_id |-> task_id, ok |-> FALSE,
                      data |-> <<>>]
    /\ UNCHANGED <<tasks, pc, idx, now, importable, lastCall, cancel_pc>>
    /\ UNCHANGED otherVars

\* ZipEntries that also writes an entry for every failed result
RECURSIVE ZipEntries_AllResults(_)
ZipEntries_AllResults(results) ==
    IF results = <<>> THEN <<>>
    ELSE LET result == Head(results)
             names == IF result.success /\ result.output # NoOutput
                      THEN [i \in 1..Len(result.output) |-> <<result.index, i - 1>>]
                      ELSE << <<result.index, 0>> >>
         IN names \o ZipEntries_AllResults(Tail(results))

\* lines 298-302: the names written to the archive, "<filename>_<i>.jpg" for
\* output i of every successful result; the file name is the result's index
RECURSIVE ZipEntries(_)
ZipEntries(results) ==
    IF results = <<>> THEN <<>>
    ELSE LET result == Head(results)
             names == IF result.success /\ result.output # NoOutput
                      THEN [i \in 1..Len(result.output) |-> <<result.index, i - 1>>]
                      ELSE <<>>
         IN names \o ZipEntries(Tail(results))

\* generate_download_package that also serves a failed batch
generate_download_package_AnyTerminal(task_id) ==
    IF task_id \notin DOMAIN tasks THEN <<>>
    ELSE LET task == get_task_results(task_id)
         IN IF task.status \notin {STATUS_COMPLETED, STATUS_FAILED} THEN <<>>
            ELSE <<[entries |-> ZipEntries(task.results)]>>

\* generate_download_package, lines 284-309; None is <<>>.  Every output was
\* written by _encode_image or zimage_service as a data URL, so line 302 does
\* not raise.
generate_download_package(task_id) ==
    IF task_id \notin DOMAIN tasks THEN <<>>
    ELSE LET task == get_task_results(task_id)
         IN IF task.status # STATUS_COMPLETED THEN <<>>
            ELSE <<[entries |-> ZipEntries(task.results)]>>

\* a call of generate_download_package
call_generate_download_package(task_id) ==
    /\ LET zip_data == generate_download_package(task_id)
       IN reply' = [op |-> "generate_download_package", task_id |-> task_id,
                    ok |-> zip_data # <<>>, data |-> zip_data]
    /\ UNCHANGED <<tasks, pc, idx, now, importable, lastCall, cancel_pc>>
    /\ UNCHANGED otherVars

ApiNext ==
    \/ \E t \in TaskIds, u \in Users, rq \in CreateRequests :
            create_batch_task(t, u, rq[1], rq[2])
    \/ \E t \in TaskIds : process_task_start(t)
    \/ \E t \in TaskIds : process_task_import_error(t)
    \/ \E t \in TaskIds : process_task_loop(t)
    \/ \E t \in TaskIds : process_task_item(t)
    \/ \E t \in CallIds, u \in Users : cancel_task(t, u)
    \/ \E t \in CallIds : call_get_task_status(t)
    \/ \E t \in CallIds : call_get_task_results(t)
    \/ \E t \in CallIds : call_generate_download_package(t)

\* the batch processor behind its endpoints, with callers that read; no
\* endpoint or reader looks at the clock, which stays at its first value
ApiSpec == Init /\ [][ApiNext]_vars

(* ---------------- C11 ---------------- *)
RequestValid(req) ==
    /\ 1 <= req.n_images
    /\ req.n_images <= MaxBatchImages
    /\ \A k \in 1..Len(req.operations) : req.operations[k] \in ValidOperations

\* C11: create_batch_task accepts a request only if it has 1..50 images and
\* only known operation names; a rejected request changes neither the task
\* table nor any loop, and a task enters the table only by an accepted request.
C11_RequestValidation ==
    [][ /\ (reply' # reply /\ reply'.op = "create_batch_task") =>
            /\ reply'.ok <=> RequestValid(reply'.data[1])
            /\ ~reply'.ok => (tasks' = tasks /\ pc' = pc /\ idx' = idx)
            /\ reply'.ok =>
                 /\ reply'.task_id \notin DOMAIN tasks
                 /\ DOMAIN tasks' = DOMAIN tasks \cup {reply'.task_id}
                 /\ tasks'[reply'.task_id].total_images = reply'.data[1].n_images
                 /\ pc'[reply'.task_id] = "start"
        /\ (DOMAIN tasks' # DOMAIN tasks) =>
            /\ reply'.op = "create_batch_task"
            /\ reply'.ok
            /\ RequestValid(reply'.data[1]) ]_vars

\* a request of 51 images with known operations was rejected, no task exists
C11_Witness ==
    /\ reply.op = "create_batch_task"
    /\ ~reply.ok
    /\ reply.data[1].n_images = MaxBatchImages + 1
    /\ \A k \in 1..Len(reply.data[1].operations) :
            reply.data[1].operations[k] \in ValidOperations
    /\ tasks = <<>>

(* ---------------- C12 ---------------- *)
\* C12: generate_download_package returns an archive exactly when the task
\* exists and its status is completed at the time of the call; an unknown
\* task and a pending, processing, failed or cancelled one get None.
C12_ArchiveOnlyWhenCompleted ==
    reply.op = "generate_download_package" =>
        /\ reply.ok <=> /\ reply.task_id \in DOMAIN tasks
                        /\ tasks[reply.task_id].status = STATUS_COMPLETED
        /\ ~reply.ok => reply.data = <<>>
        /\ reply.ok => \A k \in 1..Len(reply.data[1].entries) :
                          \E r \in 1..Len(tasks[reply.task_id].results) :
                              /\ tasks[reply.task_id].results[r].success
                              /\ tasks[reply.task_id].results[r].index
                                    = reply.data[1].entries[k][1]

\* a batch whose every item failed is terminal and was refused an archive
C12_Witness ==
    /\ reply.op = "generate_download_package"
    /\ ~reply.ok
    /\ reply.task_id \in DOMAIN tasks
    /\ tasks[reply.task_id].status = STATUS_FAILED
    /\ tasks[reply.task_id].processed_images = tasks[reply.task_id].total_images
    /\ tasks[reply.task_id].failed_count = tasks[reply.task_id].total_images

(* ---------------- C13 ---------------- *)
ReaderOps == {"get_task_status", "get_task_results"}

\* what a reader call for the task of the last reply returns in this state
ReadAgain ==
    IF reply.task_id \notin DOMAIN tasks THEN <<>>
    ELSE IF reply.op = "get_task_status" THEN <<get_task_status(reply.task_id)>>
    ELSE <<get_task_results(reply.task_id)>>

C13_SameDataAgain ==
    reply.op \in ReaderOps =>
        /\ reply.task_id \notin DOMAIN tasks => (~reply.ok /\ reply.data = <<>>)
        /\ reply.data = ReadAgain

\* C13: a reader call changes no task (a step that changes the table or a
\* loop position is never a reader's), returns None for an unknown id, and
\* as long as no loop step and no cancel_task has happened since it returned,
\* the same call returns the same data.
C13_ReadersPure ==
    /\ []C13_SameDataAgain
    /\ [][ (tasks' # tasks \/ pc' # pc \/ idx' # idx) => reply'.op \notin ReaderOps ]_vars

\* get_task_results returned the results of a batch that is still being processed
C13_Witness ==
    /\ reply.op = "get_task_results"
    /\ reply.ok
    /\ tasks[reply.task_id].status = STATUS_PROCESSING
    /\ Len(reply.data[1].results) + Len(reply.data[1].errors) > 0

(***************************************************************************)
(* BatchProcessor._process_single_image (batch_processor.py 173-233): the  *)
(* chain of operations on one image.  The function reads only its          *)
(* arguments; what the OCR, segmentation and generation services do with   *)
(* the image is an input of the model, one outcome per requested stage:    *)
(*   "ok"      the stage produced an image                                 *)
(*   "failed"  the stage reported success = False (inpaint or segmentation)*)
(*   "raises"  a service call of the stage raised                          *)
(* A stage suspends at its service calls, an unsupported operation does    *)
(* not, so one action runs the code from one awaited stage to the next.    *)
(***************************************************************************)
OperationNames == ValidOperations \cup {"sharpen"}
StageOutcomes == {"ok", "failed", "raises"}

\* operations of one request, and one outcome per stage; an unsupported
\* operation calls no service and can only fail
OpChains == SeqsUpTo(OperationNames, MaxOps)
OutcomesOf(operations) ==
    { o \in SeqsUpTo(StageOutcomes, MaxOps) :
        /\ Len(o) = Len(operations)
        /\ \A k \in 1..Len(o) : operations[k] \notin ValidOperations => o[k] = "failed" }

NoResult == [success |-> FALSE, output |-> NoOutput, error |-> "unset"]

ItemInputs ==
    UNION { { [pc |-> "called", operations |-> ops, outcomes |-> o, k |-> 0,
               output_urls |-> <<>>, result |-> NoResult] : o \in OutcomesOf(ops) } :
            ops \in OpChains }

\* lines 185-228: the for loop from operation k up to the next service call
\* or to the return; lines 218-219 give an unsupported operation a failed
\* result, which lines 221-222 then ignore
RECURSIVE RunStages(_, _)
RunStages(it, k) ==
    IF k > Len(it.operations)
    THEN [it EXCEPT !.pc = "returned", !.k = k,
                    !.result = [success |-> Len(it.output_urls) > 0,
                                output  |-> it.output_urls,
                                error   |-> NoError]]
    ELSE IF it.operations[k] \notin ValidOperations
    THEN RunStages(it, k + 1)
    ELSE [it EXCEPT !.pc = "stage", !.k = k]

ItemFrame ==
    /\ UNCHANGED <<tasks, pc, idx, now, importable, lastCall, cancel_pc, reply>>
    /\ UNCHANGED <<job, jobReply, wait, lk, held>>

\* lines 181-185: the call, up to the first service call or to the return
process_single_image_call ==
    /\ item.pc = "called"
    /\ item' = RunStages(item, 1)
    /\ ItemFrame

\* lines 186-216 and 221-222: the services of stage k have answered
process_single_image_stage ==
    /\ item.pc = "stage"
    /\ LET k == item.k
       IN item' =
            IF item.outcomes[k] = "raises"
            THEN \* lines 230-232
                 [item EXCEPT !.pc = "returned",
                              !.result = [success |-> FALSE, output |-> NoOutput,
                                          error |-> "exception"]]
            ELSE IF item.outcomes[k] = "ok"
            THEN RunStages([item EXCEPT !.output_urls = Append(@, k)], k + 1)
            ELSE RunStages(item, k + 1)
    /\ ItemFrame

ItemInit ==
    /\ BatchIdle
    /\ job = IdleJob
    /\ jobReply = NoJobReply
    /\ wait = IdleWait
    /\ item \in ItemInputs

ItemNext ==
    \/ process_single_image_call
    \/ process_single_image_stage

\* one call of _process_single_image for every chain of operations and
\* every outcome of its stages
ItemSpec == ItemInit /\ [][ItemNext]_vars

(* ---------------- C19 ---------------- *)
\* the stages of the chain that did not produce an image
FailedStages(it) ==
    {k \in 1..Len(it.operations) : it.outcomes[k] # "ok"}

\* C19: an item is reported successful only if every requested stage
\* succeeded; if any stage failed the item is reported failed, carries an
\* error, and holds no output of the other stages.
C19_FailFastPerItem ==
    item.pc = "returned" =>
        /\ item.result.success => FailedStages(item) = {}
        /\ FailedStages(item) # {} =>
              /\ ~item.result.success
              /\ item.result.output = NoOutput
              /\ item.result.error # NoError

(***************************************************************************)
(* ModelScopeClient._wait_for_result (modelscope_client.py 132-169): the   *)
(* polling loop on a submitted provider task.  Time is time.time() in      *)
(* whole seconds since start_time.  A status request takes 0..MaxPollTime  *)
(* seconds and is answered with a task_status, with no task_status, or     *)
(* with an HTTP error that raise_for_status (line 129) turns into an       *)
(* exception; asyncio.sleep(POLL_INTERVAL) takes POLL_INTERVAL seconds.    *)
(***************************************************************************)
POLL_INTERVAL == 5
max_wait == 600

TaskStatus == {"PENDING", "PROCESSING", "SUCCEED", "FAILED"}

\* what a status request can come back with: a task_status, a JSON body
\* without the key, or an HTTP error
Absent == "absent"
Responses == TaskStatus \cup {Absent}

\* StatusOf that reads a missing task_status as SUCCEED
StatusOf_AbsentSucceeds(response) ==
    IF response = Absent THEN "SUCCEED" ELSE response

\* line 152: status_data.get("task_status", TaskStatus.PROCESSING.value)
StatusOf(response) ==
    IF response = Absent THEN "PROCESSING" ELSE response

NewWait ==
    [ pc |-> "check",         \* check: line 149, request: line 151, sleep: line 166
      elapsed |-> 0,          \* time.time() - start_time
      checked_at |-> 0,       \* `elapsed` of line 149 at the last check
      requested_at |-> 0,     \* time of the last status request
      polls |-> 0,            \* status requests sent
      response |-> "none",    \* what the last answered request came back with
      outcome |-> "none",     \* success, TimeoutError, RuntimeError, HTTPError
      output_images |-> 0 ]   \* the poll whose output_images are returned

WaitFrame ==
    /\ UNCHANGED <<tasks, pc, idx, now, importable, lastCall, cancel_pc, reply>>
    /\ UNCHANGED <<job, jobReply, item, lk, held>>

\* wait_check that raises RuntimeError when the time is up
wait_check_ProviderErrorOnTimeout ==
    /\ wait.pc = "check"
    /\ wait' = IF wait.elapsed > max_wait
               THEN [wait EXCEPT !.pc = "done", !.checked_at = wait.elapsed,
                                 !.outcome = "RuntimeError"]
               ELSE [wait EXCEPT !.pc = "request", !.checked_at = wait.elapsed,
                                 !.requested_at = wait.elapsed, !.polls = @ + 1]
    /\ WaitFrame

\* lines 148-151: elapsed is computed, the timeout is tested, the request is sent
wait_check ==
    /\ wait.pc = "check"
    /\ wait' = IF wait.elapsed > max_wait
               THEN [wait EXCEPT !.pc = "done", !.checked_at = wait.elapsed,
                                 !.outcome = "TimeoutError"]
               ELSE [wait EXCEPT !.pc = "request", !.checked_at = wait.elapsed,
                                 !.requested_at = wait.elapsed, !.polls = @ + 1]
    /\ WaitFrame

\* lines 151-166: the request is answered after d seconds
wait_response(response, d) ==
    /\ wait.pc = "request"
    /\ LET task_status == StatusOf(response)
           w == [wait EXCEPT !.elapsed = @ + d, !.response = response]
       IN wait' =
            IF task_status = "SUCCEED"
            THEN [w EXCEPT !.pc = "done", !.outcome = "success",
                           !.output_images = wait.polls]
            ELSE IF task_status = "FAILED"
            THEN [w EXCEPT !.pc = "done", !.outcome = "RuntimeError"]
            ELSE [w EXCEPT !.pc = "sleep"]
    /\ WaitFrame

\* lines 125-129: the request fails or is answered with an HTTP error status;
\* the exception leaves _wait_for_result
wait_http_error(d) ==
    /\ wait.pc = "request"
    /\ wait' = [wait EXCEPT !.elapsed = @ + d, !.pc = "done", !.outcome = "HTTPError"]
    /\ WaitFrame

\* line 166: await asyncio.sleep(self.POLL_INTERVAL)
wait_sleep ==
    /\ wait.pc = "sleep"
    /\ wait' = [wait EXCEPT !.elapsed = @ + POLL_INTERVAL, !.pc = "check"]
    /\ WaitFrame

WaitInit ==
    /\ BatchIdle
    /\ job = IdleJob
    /\ jobReply = NoJobReply
    /\ item = IdleItem
    /\ wait = NewWait

WaitStep ==
    \/ wait_check
    \/ \E r \in Responses, d \in 0..MaxPollTime : wait_response(r, d)
    \/ \E d \in 0..MaxPollTime : wait_http_error(d)
    \/ wait_sleep

WaitNext ==
    \/ wait_check
    \/ \E r \in Responses, d \in 0..MaxPollTime : wait_response(r, d)
    \/ \E d \in 0..MaxPollTime : wait_http_error(d)
    \/ wait_sleep

WaitSpec == WaitInit /\ [][WaitNext]_vars

\* the event loop resumes the coroutine: every request ends and every sleep ends
FairWaitSpec == WaitSpec /\ WF_vars(WaitStep)

(* ---------------- C14 ---------------- *)
MaxPolls == (max_wait \div POLL_INTERVAL) + 1

\* every status request was answered and none reported SUCCEED or FAILED
NeverTerminal ==
    /\ wait.response \notin {"SUCCEED", "FAILED"}
    /\ wait.outcome # "HTTPError"

C14_Safety ==
    /\ (wait.pc = "done" /\ NeverTerminal) =>
            /\ wait.outcome = "TimeoutError"
            /\ wait.checked_at > max_wait
    /\ wait.outcome = "TimeoutError" => NeverTerminal
    /\ wait.outcome = "RuntimeError" => wait.response = "FAILED"

C14_Live == (wait.pc = "check") ~> (wait.pc = "done")

\* C14: against a provider that answers every status request and never
\* reports SUCCEED or FAILED, _wait_for_result ends, with TimeoutError, once
\* elapsed > max_wait; RuntimeError is raised only for a reported FAILED.
C14_TimeoutIsDistinct == []C14_Safety /\ C14_Live

\* the wait timed out after the largest number of status requests
C14_Witness ==
    /\ wait.outcome = "TimeoutError"
    /\ wait.polls = MaxPolls
    /\ wait.response = "PENDING"

(* ---------------- C15 ---------------- *)
C15_Inv(outcomes) ==
    /\ wait.polls <= MaxPolls
    /\ wait.pc = "done" => wait.outcome \in outcomes
    /\ wait.pc # "done" => wait.response \notin {"SUCCEED", "FAILED"}
    /\ wait.outcome = "success" =>
            /\ wait.response = "SUCCEED"
            /\ wait.checked_at <= max_wait
            /\ wait.output_images = wait.polls
    /\ wait.outcome = "RuntimeError" => wait.response = "FAILED"
    /\ wait.outcome = "TimeoutError" =>
            /\ wait.checked_at > max_wait
            /\ wait.response \notin {"SUCCEED", "FAILED"}

C15_Step ==
    /\ wait'.polls # wait.polls =>
            /\ wait'.polls = wait.polls + 1
            /\ wait.elapsed <= max_wait
            /\ wait.polls >= 1 => wait.elapsed - wait.requested_at >= POLL_INTERVAL
    /\ ( /\ wait.pc = "request"
         /\ wait'.outcome # "HTTPError"
         /\ wait'.response \in {"PENDING", "PROCESSING", Absent} ) => wait'.pc = "sleep"

C15_StopsAsStated == C15_Inv({"success", "RuntimeError", "TimeoutError"})

C15_StopsOrRaises == C15_Inv({"success", "RuntimeError", "TimeoutError", "HTTPError"})

PENDING == "pending"
PROCESSING == "processing"
COMPLETED == "completed"
FAILED == "failed"

NoProgress == -1     \* progress = None
NoUrls == <<>>       \* result_urls = None
UserCancelled == "user cancelled"   \* the message of processing.py line 185

JobIds == {1}
UnknownJobId == 0

\* create_processing_job, image_service.py lines 134-141
NewJob(user_id) ==
    [ status |-> PENDING, user_id |-> user_id, progress |-> 0,
      result_urls |-> NoUrls, error_message |-> NoError,
      started_at |-> NoTime, completed_at |-> NoTime ]

\* the argument lists update_processing_job_status is called with
UpdateCalls ==
    { [site |-> "start",    status |-> PROCESSING, progress |-> 10,
       result_urls |-> NoUrls, error_message |-> NoError],
      [site |-> "progress", status |-> PROCESSING, progress |-> 30,
       result_urls |-> NoUrls, error_message |-> NoError],
      [site |-> "complete", status |-> COMPLETED, progress |-> 100,
       result_urls |-> <<"url">>, error_message |-> NoError],
      [site |-> "fail",     status |-> FAILED, progress |-> NoProgress,
       result_urls |-> NoUrls, error_message |-> "error"],
      [site |-> "cancel",   status |-> FAILED, progress |-> NoProgress,
       result_urls |-> NoUrls, error_message |-> UserCancelled],
      \* BackgroundTaskProcessor._update_job_status: progress defaults to 0,
      \* error_message is result.get('error')
      [site |-> "fail_bg",  status |-> FAILED, progress |-> 0,
       result_urls |-> NoUrls, error_message |-> "error"],
      [site |-> "fail_bg",  status |-> FAILED, progress |-> 0,
       result_urls |-> NoUrls, error_message |-> NoError] }

\* image_service.py lines 181-201: the writes to the row
UpdatedJob(j, call, ts) ==
    LET j1 == [j EXCEPT !.status = call.status]
        j2 == IF call.progress # NoProgress THEN [j1 EXCEPT !.progress = call.progress] ELSE j1
        j3 == IF call.result_urls # NoUrls THEN [j2 EXCEPT !.result_urls = call.result_urls] ELSE j2
        j4 == IF call.error_message # NoError
              THEN [j3 EXCEPT !.error_message = call.error_message] ELSE j3
    IN IF call.status = PROCESSING /\ j4.started_at = NoTime
       THEN [j4 EXCEPT !.started_at = ts]
       ELSE IF call.status \in {COMPLETED, FAILED}
       THEN [j4 EXCEPT !.completed_at = ts]
       ELSE j4

JobFrame ==
    /\ UNCHANGED <<tasks, pc, idx, importable, lastCall, cancel_pc, reply>>
    /\ UNCHANGED <<wait, item, lk, held>>

\* create_processing_job (lines 118-150), awaited by images.py line 323
create_processing_job(user_id) ==
    /\ job.status = "none"
    /\ job' = NewJob(user_id)
    /\ UNCHANGED <<now, jobReply>>
    /\ JobFrame

\* update_processing_job_status, lines 163-224; an unknown job_id returns False
update_processing_job_status(job_id, call) ==
    /\ job' = IF job_id \in JobIds /\ job.status # "none"
              THEN UpdatedJob(job, call, now)
              ELSE job
    /\ UNCHANGED <<now, jobReply>>
    /\ JobFrame

\* cancel_processing_job, processing.py lines 164-188, as written
cancel_processing_job(job_id, user_id) ==
    /\ jobReply' = [op |-> "cancel_processing_job", job_id |-> job_id, user_id |-> user_id,
                    response |-> "INTERNAL_ERROR",
                    seq |-> IF jobReply.op = "none" THEN 0 ELSE 1 - jobReply.seq]
    /\ UNCHANGED <<now, job>>
    /\ JobFrame

JobInit ==
    /\ BatchIdle
    /\ wait = IdleWait
    /\ item = IdleItem
    /\ job = IdleJob
    /\ jobReply = NoJobReply

JobNext ==
    \/ \E u \in Users : create_processing_job(u)
    \/ \E j \in JobIds \cup {UnknownJobId}, c \in UpdateCalls : update_processing_job_status(j, c)
    \/ \E j \in JobIds \cup {UnknownJobId}, u \in Users : cancel_processing_job(j, u)
    \/ Tick

JobSpec == JobInit /\ [][JobNext]_vars

(* ---------------- C16 ---------------- *)
JobExists == job.status # "none"

JobRank(status) ==
    IF status = PENDING THEN 0 ELSE IF status = PROCESSING THEN 1 ELSE 2

\* C16: the status of a job only moves pending -> processing -> {completed,
\* failed}; a completed or failed job keeps its status under every later
\* update.
C16_JobStatusMonotone ==
    [][ (JobExists /\ job'.status # job.status) =>
            /\ job.status \notin {COMPLETED, FAILED}
            /\ JobRank(job'.status) > JobRank(job.status) ]_vars

(* ---------------- C17 ---------------- *)
CancelJobCalled ==
    /\ jobReply' # jobReply
    /\ jobReply'.op = "cancel_processing_job"

\* the job the request names exists and belongs to the caller
OwnJob(r) == r.job_id \in JobIds /\ JobExists /\ job.user_id = r.user_id

\* C17: a cancel request for the caller's own pending or processing job
\* succeeds and leaves the job failed with the user-cancelled message; for
\* the caller's completed or failed job it answers OperationNotAllowed, for
\* an unknown or foreign job NotFound, and in both cases changes nothing.
C17_CancelJobContract ==
    [][ CancelJobCalled =>
          LET r == jobReply'
          IN IF ~OwnJob(r)
             THEN r.response = "NOT_FOUND" /\ job' = job
             ELSE IF job.status \in {COMPLETED, FAILED}
             THEN r.response = "OPERATION_NOT_ALLOWED" /\ job' = job
             ELSE /\ r.response = "SUCCESS"
                  /\ job'.status = FAILED
                  /\ job'.error_message = UserCancelled ]_vars

(* ---------------- C18 ---------------- *)
\* C18: a job carries an error message exactly when its status is failed.
C18_ErrorMessageIffFailed ==
    JobExists => (job.error_message # NoError <=> job.status = FAILED)

(* ---------------- C20 ---------------- *)
\* C20: completed_at is written at the step that makes the job completed or
\* failed and at no other step, and is never written again; started_at is
\* written at the first step that makes the job processing, and never again.
C20_TimestampsWrittenOnce ==
    [][ JobExists =>
          /\ job.completed_at # NoTime => job'.completed_at = job.completed_at
          /\ job.started_at # NoTime => job'.started_at = job.started_at
          /\ job'.completed_at # job.completed_at =>
                /\ job.status \notin {COMPLETED, FAILED}
                /\ job'.status \in {COMPLETED, FAILED}
          /\ job'.started_at # job.started_at =>
                /\ job.status # PROCESSING
                /\ job'.status = PROCESSING ]_vars

(* ---------------- C22 ---------------- *)
IsPrefix(a, b) == Len(a) <= Len(b) /\ \A k \in 1..Len(a) : a[k] = b[k]

\* C22: once cancel_task has returned True for a task, the only item outcome
\* still added is that of the image that was in flight when the cancel
\* arrived, the loop ends with it, and no recorded outcome is ever changed
\* or removed.
C22_AtMostOneOutcomeAfterCancel ==
    [][ \A t \in DOMAIN tasks :
          /\ IsPrefix(tasks[t].results, tasks'[t].results)
          /\ IsPrefix(tasks[t].errors, tasks'[t].errors)
          /\ ( /\ ~NeverCancelled(t)
               /\ tasks'[t].processed_images # tasks[t].processed_images )
             => /\ cancel_pc[t] = "work"
                /\ tasks'[t].processed_images = tasks[t].processed_images + 1
                /\ pc'[t] = "done" ]_vars

(* ---------------- C23 ---------------- *)
C23_Ended(t) ==
    /\ t \in DOMAIN tasks
    /\ pc[t] = "done"
    /\ Terminal(tasks[t].status)
    /\ tasks[t].completed_at # NoTime

C23_Safety == \A t \in DOMAIN tasks : pc[t] = "done" => C23_Ended(t)

C23_Live == \A t \in TaskIds : (pc[t] = "start") ~> C23_Ended(t)

\* C23: under fair scheduling the loop of every task ends, and when it has
\* ended the task has a terminal status and completed_at is set, also when
\* an exception left the per-item handling.
C23_ReachesTerminal == []C23_Safety /\ C23_Live

\* the loop ended through the outer handler before any image was processed
C23_Witness ==
    \E t \in DOMAIN tasks :
        /\ pc[t] = "done"
        /\ OuterHandlerRan(t)
        /\ tasks[t].processed_images = 0
        /\ tasks[t].status = STATUS_FAILED
        /\ tasks[t].completed_at # NoTime

(* ---------------- C30 ---------------- *)
C30_SetIffTerminal ==
    \A t \in DOMAIN tasks :
        tasks[t].completed_at # NoTime <=> Terminal(tasks[t].status)

\* C30: completed_at is set exactly when the status is terminal, and once
\* set it is never written again.
C30_CompletedAtIffTerminal ==
    /\ []C30_SetIffTerminal
    /\ [][ \A t \in DOMAIN tasks :
             tasks[t].completed_at # NoTime
                => tasks'[t].completed_at = tasks[t].completed_at ]_vars

(* ---------------- C27 ---------------- *)
\* the (position in results, output variant) pairs of the successful results
SuccessPairs(results) ==
    UNION { { <<r, v>> : v \in 0..(Len(results[r].output) - 1) } :
            r \in {q \in 1..Len(results) : results[q].success} }

\* the position in results of the entry's item
PositionOf(results, entry) ==
    CHOOSE r \in 1..Len(results) : results[r].index = entry[1]

RecordedEntry ==
    RecordResult(NewTask(1, <<"ok">>, 0), 0, item.result).results[1]

\* C28: the entry recorded for an item is well formed: success with at least
\* one output and no error, or failure with no output and an error reason.
C28_EntryWellFormed ==
    item.pc = "returned" =>
        IF RecordedEntry.success
        THEN RecordedEntry.output # NoOutput /\ RecordedEntry.error = NoError
        ELSE RecordedEntry.output = NoOutput /\ RecordedEntry.error # NoError

(* ---------------- C25 ---------------- *)
C25_InRange == JobExists => job.progress \in 0..100

\* C25: the progress of a job lies in 0..100 and never decreases: an update
\* that carries a lower progress than the stored one does not lower it.
C25_ProgressMonotone ==
    /\ []C25_InRange
    /\ [][ JobExists => job'.progress >= job.progress ]_vars

(***************************************************************************)
(* ModelScopeClient.generate and inpaint (modelscope_client.py 171-347):   *)
(* one submission (_submit_task, lines 62-111), then _wait_for_result on   *)
(* the task id, all inside one try block whose handler returns a failure   *)
(* result.  The run is kept in `wait`, with the fields of the polling loop *)
(* and three more: which method was called, what the submission came back  *)
(* with, and the result returned to the caller.                            *)
(***************************************************************************)
ClientCalls == {"generate", "inpaint"}

\* what the POST of _submit_task comes back with
SubmitOutcomes == {"task_id", "transport_error", "error_status", "no_task_id"}

NewClientCall(method) ==
    [ pc |-> "submit", call |-> method, submits |-> 0, submitted |-> "none",
      result |-> "none",
      elapsed |-> 0, checked_at |-> 0, requested_at |-> 0, polls |-> 0,
      response |-> "none", outcome |-> "none", output_images |-> 0 ]

\* submit_task that posts again after a failed submission
submit_task_Retrying(outcome) ==
    /\ wait.pc = "submit"
    /\ wait' = IF outcome = "task_id"
               THEN [wait EXCEPT !.pc = "check", !.submits = @ + 1, !.submitted = outcome]
               ELSE IF wait.submits + 1 < 3
               THEN [wait EXCEPT !.submits = @ + 1, !.submitted = outcome]
               ELSE [wait EXCEPT !.pc = "returned", !.submits = @ + 1,
                                 !.submitted = outcome, !.result = "failure"]
    /\ WaitFrame

\* lines 206-210 (295-300 for inpaint) with _submit_task, lines 62-111: the
\* POST is answered; raise_for_status or the missing task_id raise, and the
\* handler of lines 251-257 (341-347) returns the failure result
submit_task(outcome) ==
    /\ wait.pc = "submit"
    /\ wait' = IF outcome = "task_id"
               THEN [wait EXCEPT !.pc = "check", !.submits = @ + 1, !.submitted = outcome]
               ELSE [wait EXCEPT !.pc = "returned", !.submits = @ + 1,
                                 !.submitted = outcome, !.result = "failure"]
    /\ WaitFrame

\* lines 213-257: _wait_for_result has returned or raised; the images are
\* downloaded (a failed download only drops that image) and the result returned
client_return ==
    /\ wait.pc = "done"
    /\ wait' = [wait EXCEPT !.pc = "returned",
                            !.result = IF wait.outcome = "success" THEN "success"
                                       ELSE "failure"]
    /\ WaitFrame

ClientInit ==
    /\ BatchIdle
    /\ job = IdleJob
    /\ jobReply = NoJobReply
    /\ item = IdleItem
    /\ wait \in {NewClientCall(m) : m \in ClientCalls}

ClientNext ==
    \/ \E o \in SubmitOutcomes : submit_task(o)
    \/ wait_check
    \/ \E r \in Responses, d \in 0..MaxPollTime : wait_response(r, d)
    \/ \E d \in 0..MaxPollTime : wait_http_error(d)
    \/ wait_sleep
    \/ client_return

ClientSpec == ClientInit /\ [][ClientNext]_vars

LockCallerOps == {"create_task", "get_task_status", "get_task_results", "cancel_task"}

\* lines of _process_task that open an `async with self._task_lock`
AcquireLines == {"86", "111", "124", "145", "154", "167"}

\* first line of the body of the block opened at an acquire line
BodyOf(line) ==
    CASE line = "86" -> "87"
      [] line = "111" -> "112"
      [] line = "124" -> "125"
      [] line = "145" -> "146"
      [] line = "154" -> "155"
      [] line = "167" -> "168"

BodyLines == {BodyOf(l) : l \in AcquireLines}

\* places where the loop coroutine is suspended and the event loop may resume it
ResumeAt(line) ==
    CASE line = "start" -> "86"
      [] line = "102" -> "109"
      [] line = "120" -> "124"
      [] OTHER -> line

LockFrame ==
    /\ UNCHANGED <<now, importable, lastCall, cancel_pc, reply>>
    /\ UNCHANGED <<job, jobReply, wait, item, held>>

\* a caller coroutine starts one of the public methods
lock_call(op, task_id, user_id, images) ==
    /\ lk.running = "none"
    /\ lk.caller = "idle"
    /\ IF op = "create_task"
       THEN task_id \in TaskIds /\ task_id \notin DOMAIN tasks /\ images \in ImageLists
       ELSE images = <<>>
    /\ lk' = [lk EXCEPT !.running = "caller", !.caller = "acquire", !.op = op,
                        !.task_id = task_id, !.user_id = user_id, !.images = images]
    /\ UNCHANGED <<tasks, pc, idx>>
    /\ LockFrame

\* `async with self._task_lock` of the caller, lines 55, 237, 256, 272
lock_caller_acquire ==
    /\ lk.caller = "acquire"
    /\ lk.running \in {"caller", "none"}
    /\ IF lk.holder = "none"
       THEN lk' = [lk EXCEPT !.holder = "caller", !.running = "caller", !.caller = "held"]
       ELSE /\ lk.running = "caller"
            /\ lk' = [lk EXCEPT !.running = "none", !.blocked = TRUE]
    /\ UNCHANGED <<tasks, pc, idx>>
    /\ LockFrame

\* the body of the caller's block, the release at its end, and the return
lock_caller_body ==
    /\ lk.caller = "held"
    /\ lk.running = "caller"
    /\ LET t == lk.task_id
       IN CASE lk.op = "create_task" ->
                 /\ tasks' = [x \in DOMAIN tasks \cup {t} |->
                                 IF x = t THEN NewTask(lk.user_id, lk.images, now)
                                 ELSE tasks[x]]
                 /\ pc' = [pc EXCEPT ![t] = "start"]
                 /\ idx' = [idx EXCEPT ![t] = 0]
            [] lk.op = "cancel_task" ->
                 /\ tasks' = IF CancelRejected(t, lk.user_id) THEN tasks
                             ELSE [tasks EXCEPT ![t].status = STATUS_CANCELLED,
                                                ![t].completed_at = now]
                 /\ UNCHANGED <<pc, idx>>
            [] OTHER -> UNCHANGED <<tasks, pc, idx>>
    /\ lk' = [lk EXCEPT !.holder = "none", !.running = "none", !.caller = "idle",
                        !.op = "none", !.task_id = 0, !.user_id = 0, !.images = <<>>]
    /\ LockFrame

\* the event loop resumes _process_task where it was suspended
lock_loop_resume(t) ==
    /\ lk.running = "none"
    /\ t \in DOMAIN tasks
    /\ pc[t] \in {"start", "102", "120"} \cup AcquireLines
    /\ pc[t] \in AcquireLines => lk.holder = "none"
    /\ lk' = [lk EXCEPT !.running = "loop"]
    /\ pc' = [pc EXCEPT ![t] = ResumeAt(@)]
    /\ UNCHANGED <<tasks, idx>>
    /\ LockFrame

\* `async with self._task_lock` of _process_task, lines 86, 111, 124, 145, 154, 167
lock_loop_acquire(t) ==
    /\ lk.running = "loop"
    /\ pc[t] \in AcquireLines
    /\ IF lk.holder = "none"
       THEN /\ lk' = [lk EXCEPT !.holder = "loop"]
            /\ pc' = [pc EXCEPT ![t] = BodyOf(@)]
       ELSE /\ lk' = [lk EXCEPT !.running = "none", !.blocked = TRUE]
            /\ UNCHANGED pc
    /\ UNCHANGED <<tasks, idx>>
    /\ LockFrame

\* where the loop goes after the check of lines 112-113, and whether it keeps
\* running; the lock is released on the way out of the block in both cases
AfterCancelCheck(tk) ==
    IF tk.status = STATUS_CANCELLED THEN [pc |-> "done", running |-> "none"]
    ELSE [pc |-> "116", running |-> "loop"]

\* a block that is left without giving the lock back when the loop goes on to
\* the decode of line 117
LeaveBlock_HeldAcrossItem(line) == IF line = "112" THEN "loop" ELSE "none"

\* the holder of the lock after the `async with` block whose body starts at
\* `line` is left: __aexit__ releases on a normal exit, on `return` and on raise
LeaveBlock(line) == "none"

\* the body of a locked block of _process_task and the release at its end:
\* 87-89, 112-113, 125-139, 146-151, 155-160, 168-170
lock_loop_body(t) ==
    /\ lk.running = "loop"
    /\ lk.holder = "loop"
    /\ pc[t] \in BodyLines
    /\ LET tk == tasks[t]
           i == idx[t]
       IN CASE pc[t] = "87" ->
                 /\ pc' = [pc EXCEPT ![t] = "93"]
                 /\ lk' = [lk EXCEPT !.holder = LeaveBlock(pc[t])]
                 /\ UNCHANGED <<tasks, idx>>
            [] pc[t] = "112" ->
                 /\ pc' = [pc EXCEPT ![t] = AfterCancelCheck(tk).pc]
                 /\ lk' = [lk EXCEPT !.holder = LeaveBlock(pc[t]),
                                     !.running = AfterCancelCheck(tk).running]
                 /\ UNCHANGED <<tasks, idx>>
            [] pc[t] = "125" ->
                 /\ tasks' = [tasks EXCEPT ![t] =
                                 RecordResult(tk, i, ProcessSingleImage(tk.image_data[i + 1]))]
                 /\ idx' = [idx EXCEPT ![t] = i + 1]
                 /\ pc' = [pc EXCEPT ![t] = "109"]
                 /\ lk' = [lk EXCEPT !.holder = LeaveBlock(pc[t])]
            [] pc[t] = "146" ->
                 /\ tasks' = [tasks EXCEPT ![t] = RecordException(tk, i)]
                 /\ idx' = [idx EXCEPT ![t] = i + 1]
                 /\ pc' = [pc EXCEPT ![t] = "109"]
                 /\ lk' = [lk EXCEPT !.holder = LeaveBlock(pc[t])]
            [] pc[t] = "155" ->
                 /\ tasks' = [tasks EXCEPT ![t] = FinishTask(tk, now)]
                 /\ pc' = [pc EXCEPT ![t] = "done"]
                 /\ lk' = [lk EXCEPT !.holder = LeaveBlock(pc[t]), !.running = "none"]
                 /\ UNCHANGED idx
            [] pc[t] = "168" ->
                 /\ tasks' = [tasks EXCEPT ![t] = OuterFail(tk, now)]
                 /\ pc' = [pc EXCEPT ![t] = "done"]
                 /\ lk' = [lk EXCEPT !.holder = LeaveBlock(pc[t]), !.running = "none"]
                 /\ UNCHANGED idx
    /\ LockFrame

\* the statements of _process_task that stand outside every locked block:
\* 93-106 (status write, imports, gather), 109 (loop head), 116-122 (decode, await)
lock_loop_plain(t) ==
    /\ lk.running = "loop"
    /\ pc[t] \in {"93", "109", "116"}
    /\ LET tk == tasks[t]
           i == idx[t]
       IN CASE pc[t] = "93" ->
                 /\ tasks' = [tasks EXCEPT ![t].status = STATUS_PROCESSING]
                 /\ IF importable
                    THEN /\ pc' = [pc EXCEPT ![t] = "102"]
                         /\ lk' = [lk EXCEPT !.running = "none"]
                    ELSE /\ pc' = [pc EXCEPT ![t] = "167"]
                         /\ UNCHANGED lk
            [] pc[t] = "109" ->
                 /\ pc' = [pc EXCEPT ![t] = IF i >= Len(tk.image_data) THEN "154" ELSE "111"]
                 /\ UNCHANGED <<tasks, lk>>
            [] pc[t] = "116" ->
                 /\ IF tk.image_data[i + 1] = "bad"
                    THEN /\ pc' = [pc EXCEPT ![t] = "145"]
                         /\ UNCHANGED lk
                    ELSE /\ pc' = [pc EXCEPT ![t] = "120"]
                         /\ lk' = [lk EXCEPT !.running = "none"]
                 /\ UNCHANGED tasks
    /\ UNCHANGED idx
    /\ LockFrame

LockInit ==
    /\ tasks = <<>>
    /\ pc = [t \in TaskIds |-> "none"]
    /\ idx = [t \in TaskIds |-> 0]
    /\ now = 0
    /\ importable \in BOOLEAN
    /\ lastCall = NoCall
    /\ cancel_pc = [t \in TaskIds |-> "never"]
    /\ reply = NoReply
    /\ job = IdleJob
    /\ jobReply = NoJobReply
    /\ wait = IdleWait
    /\ item = IdleItem
    /\ lk = IdleLock
    /\ held = NoHeld

LockNext ==
    \/ \E op \in LockCallerOps, t \in CallIds, u \in Users, images \in ImageLists \cup {<<>>} :
          lock_call(op, t, u, images)
    \/ lock_caller_acquire
    \/ lock_caller_body
    \/ \E t \in TaskIds : lock_loop_resume(t)
    \/ \E t \in TaskIds : lock_loop_acquire(t)
    \/ \E t \in TaskIds : lock_loop_body(t)
    \/ \E t \in TaskIds : lock_loop_plain(t)

LockSpec == LockInit /\ [][LockNext]_vars

(* ---------------- C21 ---------------- *)
\* C21: every step that changes the task table or a field of a task is taken
\* by the coroutine that holds self._task_lock at that moment.
\* Line 93 writes task["status"] after the block of lines 86-89 has been left.
C21_WritesUnderLock ==
    [][tasks' # tasks => (lk.holder # "none" /\ lk.holder = lk.running)]_vars

(* ---------------- C26 ---------------- *)
\* the loop is decoding (116-117) or suspended in _process_single_image (120-122)
InItem(t) == pc[t] \in {"116", "120"}

\* a caller has started get_task_status, get_task_results or cancel_task
ReaderOrCancelRunning ==
    lk.caller # "idle" /\ lk.op \in {"get_task_status", "get_task_results", "cancel_task"}

C26_NotHeldInItem == \A t \in TaskIds : InItem(t) => lk.holder # "loop"

C26_ReleasedAtSuspension == lk.running = "none" => lk.holder = "none"

C26_AcquireNeverWaits ==
    /\ ~lk.blocked
    /\ lk.caller = "acquire" => lk.holder = "none"
    /\ \A t \in TaskIds : pc[t] \in AcquireLines => lk.holder = "none"

C26_CallerGoesOn ==
    ReaderOrCancelRunning => (ENABLED lock_caller_acquire \/ ENABLED lock_caller_body)

\* C26: the loop does not hold the lock while it decodes or awaits
\* _process_single_image; the lock is free whenever no coroutine is running;
\* no acquire ever finds the lock taken, so a reader or a cancel started while
\* an image is in progress runs to its return, and nothing waits on the lock.
C26_LockNotHeldAcrossItem ==
    /\ C26_NotHeldInItem
    /\ C26_ReleasedAtSuspension
    /\ C26_AcquireNeverWaits
    /\ C26_CallerGoesOn

\* cancel_task holds the lock while the loop is suspended in _process_single_image
C26_Witness ==
    /\ lk.caller = "held"
    /\ lk.op = "cancel_task"
    /\ lk.task_id \in DOMAIN tasks
    /\ pc[lk.task_id] = "120"

(* ================================================================== *)
(* What a caller holds after get_task_results (AliasSpec)              *)
(*                                                                    *)
(* get_task_results builds a new dict (lines 262-268).  Its strings   *)
(* and integers are immutable values; its "results" and "errors" are  *)
(* task["results"] and task["errors"], the list objects of the task.  *)
(* A list object is named here by the task that owns it: what the     *)
(* caller sees through the returned dict is the content that list has *)
(* now.  results_then / errors_then record the content at the return. *)
(* ================================================================== *)

ListFields == {"results", "errors"}

\* the content of the list object that `ref` names
Deref(ref, field) == IF field = "results" THEN tasks[ref].results ELSE tasks[ref].errors

\* get_task_results returns to a caller who keeps the dict
alias_get_task_results(task_id) ==
    /\ held = NoHeld
    /\ task_id \in DOMAIN tasks
    /\ held' = [op            |-> "get_task_results",
                task_id       |-> task_id,
                status        |-> tasks[task_id].status,
                success_count |-> tasks[task_id].success_count,
                failed_count  |-> tasks[task_id].failed_count,
                results_ref   |-> task_id,
                errors_ref    |-> task_id,
                results_then  |-> tasks[task_id].results,
                errors_then   |-> tasks[task_id].errors]
    /\ UNCHANGED <<tasks, pc, idx, now, importable, lastCall, cancel_pc, reply>>
    /\ UNCHANGED <<job, jobReply, wait, item, lk>>

\* the caller empties a list of the dict it holds, e.g. r["results"].clear()
alias_caller_clears(field) ==
    /\ held # NoHeld
    /\ Deref(held.task_id, field) # <<>>
    /\ tasks' = IF field = "results"
                THEN [tasks EXCEPT ![held.results_ref].results = <<>>]
                ELSE [tasks EXCEPT ![held.errors_ref].errors = <<>>]
    /\ UNCHANGED <<pc, idx, now, importable, lastCall, cancel_pc, reply>>
    /\ UNCHANGED otherVars

\* the caller assigns to a key of the dict it holds, e.g. r["status"] = "seen"
alias_caller_sets_status ==
    /\ held # NoHeld
    /\ held.status # "seen"
    /\ held' = [held EXCEPT !.status = "seen"]
    /\ UNCHANGED <<tasks, pc, idx, now, importable, lastCall, cancel_pc, reply>>
    /\ UNCHANGED <<job, jobReply, wait, item, lk>>

\* the caller drops the dict
alias_caller_drops ==
    /\ held # NoHeld
    /\ held' = NoHeld
    /\ UNCHANGED <<tasks, pc, idx, now, importable, lastCall, cancel_pc, reply>>
    /\ UNCHANGED <<job, jobReply, wait, item, lk>>

AliasInit == Init

AliasNext ==
    \/ \E t \in TaskIds, u \in Users, imgs \in ImageLists : create_task(t, u, imgs)
    \/ \E t \in TaskIds : process_task_start(t)
    \/ \E t \in TaskIds : process_task_import_error(t)
    \/ \E t \in TaskIds : process_task_loop(t)
    \/ \E t \in TaskIds : process_task_item(t)
    \/ \E t \in TaskIds : alias_get_task_results(t)
    \/ \E f \in ListFields : alias_caller_clears(f)
    \/ alias_caller_sets_status
    \/ alias_caller_drops

AliasSpec == AliasInit /\ [][AliasNext]_vars

(* ---------------- C29 ---------------- *)
\* the lists of the held dict have the content they had at the return
C29_ListsAsReturned ==
    held # NoHeld =>
        /\ Deref(held.results_ref, "results") = held.results_then
        /\ Deref(held.errors_ref, "errors") = held.errors_then

\* a step that is not a step of the loop leaves every stored task as it was
C29_CallerLeavesTask ==
    (pc' = pc /\ idx' = idx) => tasks' = tasks

\* C29: what get_task_results returned is a snapshot: the results and errors
\* lists the caller holds keep the content they had at the return whatever the
\* loop does later, and nothing the caller does with the returned value changes
\* a stored task.
C29_ReturnedIsSnapshot ==
    /\ []C29_ListsAsReturned
    /\ [][C29_CallerLeavesTask]_vars

====
